---- MODULE Spec2Model ----
(***************************************************************************)
(* Chain-of-responsibility dispatch of log messages (src/main.cpp).        *)
(*                                                                         *)
(* Four handler objects (FatalErrorHandler, ErrorHandler, WarningHandler,  *)
(* UnknownMessageHandler) each hold a raw successor pointer next_handler_. *)
(* handle(log) acts when the message type is the handler's own type and    *)
(* otherwise forwards to the successor, if one is set.  The observable     *)
(* world is the error-log file, the std::cerr stream and the exception     *)
(* that leaves the outermost handle call.                                  *)
(*                                                                         *)
(* A std::string is a sequence of characters, which may hold the NUL       *)
(* character; \o is concatenation / stream insertion, LF is the character  *)
(* std::endl inserts.  The text of an exception is read through what(), a  *)
(* const char*, and so ends before the first NUL character.                *)
(***************************************************************************)
EXTENDS Integers, Sequences, FiniteSets, TLC

\* ------------------------------------------------------------------ bounds
\* handle calls made by the driver on the chain wired as in main
MaxCalls == 3
\* handle calls made on an arbitrarily wired chain
MaxChainCalls == 2

\* ------------------------------------------------------------ input domains
\* the NUL character and the newline character
NUL == "NUL"
LF == "LF"

\* message texts handed to the LogMessage constructor
Texts == {<<>>, <<"a">>, <<"a", NUL, "b">>}
\* message texts used on arbitrarily wired chains
ChainTexts == {<<"a", NUL, "b">>}
\* what the file at the log path may hold before the program starts
PriorContents == {<<>>, <<"o", "l", "d", LF>>}

\* ------------------------------------------------------------------ types
NULL == "nullptr"

LogMessageType == {"Warning", "Error", "FatalError", "UnknownMessage"}

\* LogMessage(type, message): the two private fields, read by type()/message()
LogMessage == [type : LogMessageType, message : Texts]

\* the four handler objects created in main
Nodes == {"main_handler", "error_h", "warning_h", "unknown_h"}

\* dynamic type of each object (the new-expressions of main)
Class(n) ==
    CASE n = "main_handler" -> "FatalErrorHandler"
      [] n = "error_h"      -> "ErrorHandler"
      [] n = "warning_h"    -> "WarningHandler"
      [] n = "unknown_h"    -> "UnknownMessageHandler"

\* the wiring main establishes: Fatal -> Error -> Warning -> Unknown
MainChain ==
    [n \in Nodes |->
        CASE n = "main_handler" -> "error_h"
          [] n = "error_h"      -> "warning_h"
          [] n = "warning_h"    -> "unknown_h"
          [] n = "unknown_h"    -> NULL]

\* the string literal "Unprocessed message: "
UnprocessedPrefix ==
    <<"U", "n", "p", "r", "o", "c", "e", "s", "s", "e", "d", " ",
      "m", "e", "s", "s", "a", "g", "e", ":", " ">>

VARIABLES
    pc,        \* "new": nothing constructed; "ready": handlers constructed;
               \* "aborted": an exception left a constructor;
               \* "diverged": a handle call recursed without end
    openable,  \* can std::ofstream open the log path for writing
    file,      \* content of the file at the log path
    cerr,      \* everything written to std::cerr so far
    next,      \* next_handler_ of each handler object
    calls,     \* number of outermost handle calls made so far
    last,      \* the outermost call that has just come back: [head, log]
    errs,      \* texts of the Error messages handed to handle so far
    signal,    \* how that call ended: "none" or "runtime_error"
    payload,   \* what() of its exception, as a C string
    trace,     \* handler objects whose handle body ran in that call
    acted      \* handler objects whose matching branch ran in that call

vars == <<pc, openable, file, cerr, next, calls, last, errs, signal, payload,
          trace, acted>>

\* The part of the world one outermost handle call can touch.
World(f, c) ==
    [file |-> f, cerr |-> c, signal |-> "none", payload |-> <<>>,
     trace |-> <<>>, acted |-> <<>>]

\* a handle body has been entered on object self
Enter(self, w) == [w EXCEPT !.trace = Append(@, self)]

\* e.what(): the exception text as a null-terminated string, that is the
\* characters before the first NUL
CStr(s) ==
    LET nuls == {i \in 1..Len(s) : s[i] = NUL} IN
    IF nuls = {} THEN s
    ELSE SubSeq(s, 1, (CHOOSE i \in nuls : \A j \in nuls : i <= j) - 1)

\* throw std::runtime_error(what): unwinds every frame up to the caller,
\* which reads the text with what()
Throw(self, what, w) ==
    [w EXCEPT !.signal = "runtime_error", !.payload = CStr(what),
              !.acted = Append(@, self)]

RECURSIVE handle(_, _, _, _)

\* FatalErrorHandler::handle
FatalErrorHandler_handle(nxt, self, log, w) ==
    IF log.type = "FatalError"
    THEN Throw(self, log.message, w)
    ELSE IF nxt[self] # NULL
         THEN handle(nxt, nxt[self], log, w)
         ELSE w

\* variant: the stream is opened in append mode
ErrorHandler_handle_append(nxt, self, log, w) ==
    IF log.type = "Error"
    THEN IF openable
         THEN [w EXCEPT !.file = @ \o log.message \o <<LF>>,
                        !.acted = Append(@, self)]
         ELSE [w EXCEPT !.acted = Append(@, self)]
    ELSE IF nxt[self] # NULL
         THEN handle(nxt, nxt[self], log, w)
         ELSE w

\* variant: the else before the forwarding branch is missing
ErrorHandler_handle_fallthrough(nxt, self, log, w) ==
    LET a == IF log.type = "Error"
             THEN IF openable
                  THEN [w EXCEPT !.file = log.message \o <<LF>>,
                                 !.acted = Append(@, self)]
                  ELSE [w EXCEPT !.acted = Append(@, self)]
             ELSE w
    IN IF nxt[self] # NULL
       THEN handle(nxt, nxt[self], log, a)
       ELSE a

\* variant: a failed open is reported with an exception
ErrorHandler_handle_throwing(nxt, self, log, w) ==
    IF log.type = "Error"
    THEN IF openable
         THEN [w EXCEPT !.file = log.message \o <<LF>>,
                        !.acted = Append(@, self)]
         ELSE Throw(self, <<"e", "r", "r">>, w)
    ELSE IF nxt[self] # NULL
         THEN handle(nxt, nxt[self], log, w)
         ELSE w

\* variant: the file is written only while it is still empty
ErrorHandler_handle_once(nxt, self, log, w) ==
    IF log.type = "Error"
    THEN IF openable /\ w.file = <<>>
         THEN [w EXCEPT !.file = log.message \o <<LF>>,
                        !.acted = Append(@, self)]
         ELSE [w EXCEPT !.acted = Append(@, self)]
    ELSE IF nxt[self] # NULL
         THEN handle(nxt, nxt[self], log, w)
         ELSE w

\* ErrorHandler::handle: std::ofstream ofs(filepath_) truncates the file
\* when it opens; a failed open leaves the file alone and is not reported
ErrorHandler_handle(nxt, self, log, w) ==
    IF log.type = "Error"
    THEN IF openable
         THEN [w EXCEPT !.file = log.message \o <<LF>>,
                        !.acted = Append(@, self)]
         ELSE [w EXCEPT !.acted = Append(@, self)]
    ELSE IF nxt[self] # NULL
         THEN handle(nxt, nxt[self], log, w)
         ELSE w

\* variant: the text is written without std::endl
WarningHandler_handle_noendl(nxt, self, log, w) ==
    IF log.type = "Warning"
    THEN [w EXCEPT !.cerr = @ \o log.message,
                   !.acted = Append(@, self)]
    ELSE IF nxt[self] # NULL
         THEN handle(nxt, nxt[self], log, w)
         ELSE w

\* variant: the handler also takes Error messages
WarningHandler_handle_greedy(nxt, self, log, w) ==
    IF log.type = "Warning" \/ log.type = "Error"
    THEN [w EXCEPT !.cerr = @ \o log.message \o <<LF>>,
                   !.acted = Append(@, self)]
    ELSE IF nxt[self] # NULL
         THEN handle(nxt, nxt[self], log, w)
         ELSE w

\* WarningHandler::handle
WarningHandler_handle(nxt, self, log, w) ==
    IF log.type = "Warning"
    THEN [w EXCEPT !.cerr = @ \o log.message \o <<LF>>,
                   !.acted = Append(@, self)]
    ELSE IF nxt[self] # NULL
         THEN handle(nxt, nxt[self], log, w)
         ELSE w

\* variant: the last handler of a chain rejects whatever reaches it
UnknownMessageHandler_handle_catchall(nxt, self, log, w) ==
    IF log.type = "UnknownMessage" \/ nxt[self] = NULL
    THEN Throw(self, UnprocessedPrefix \o log.message, w)
    ELSE handle(nxt, nxt[self], log, w)

\* UnknownMessageHandler::handle
UnknownMessageHandler_handle(nxt, self, log, w) ==
    IF log.type = "UnknownMessage"
    THEN Throw(self, UnprocessedPrefix \o log.message, w)
    ELSE IF nxt[self] # NULL
         THEN handle(nxt, nxt[self], log, w)
         ELSE w

\* Virtual call n->handle(log).  A call that comes back to an object whose
\* handle is still on the stack repeats for ever (no handler on the cycle
\* matches and none changes anything): the call never returns.
handle(nxt, n, log, w) ==
    IF \E i \in 1..Len(w.trace) : w.trace[i] = n
    THEN [w EXCEPT !.signal = "diverge"]
    ELSE LET e == Enter(n, w) IN
         CASE Class(n) = "FatalErrorHandler" ->
                  FatalErrorHandler_handle(nxt, n, log, e)
           [] Class(n) = "ErrorHandler" ->
                  ErrorHandler_handle(nxt, n, log, e)
           [] Class(n) = "WarningHandler" ->
                  WarningHandler_handle(nxt, n, log, e)
           [] Class(n) = "UnknownMessageHandler" ->
                  UnknownMessageHandler_handle(nxt, n, log, e)

\* variant: the constructor does not open the file
ErrorHandler_ctor_noopen(w) == w

\* ErrorHandler::ErrorHandler(filepath): opens the path for writing, which
\* empties the file, and closes it again; a failed open is ignored
ErrorHandler_ctor(w) ==
    IF openable THEN [w EXCEPT !.file = <<>>] ELSE w

\* ----------------------------------------------------------------- actions
NoCall == [head |-> NULL, log |-> [type |-> "none", message |-> <<>>]]

Init ==
    /\ pc = "new"
    /\ openable \in BOOLEAN
    /\ file \in PriorContents
    /\ cerr = <<>>
    /\ next = [n \in Nodes |-> NULL]
    /\ calls = 0
    /\ last = NoCall
    /\ errs = <<>>
    /\ signal = "none"
    /\ payload = <<>>
    /\ trace = <<>>
    /\ acted = <<>>

\* main: the four new-expressions; every next_handler_ starts as nullptr
Construct ==
    /\ pc = "new"
    /\ LET r == ErrorHandler_ctor(World(file, cerr)) IN
         /\ file' = r.file
         /\ signal' = r.signal
         /\ payload' = r.payload
         /\ pc' = IF r.signal = "none" THEN "ready" ELSE "aborted"
    /\ next' = [n \in Nodes |-> NULL]
    /\ UNCHANGED <<openable, cerr, calls, last, errs, trace, acted>>

\* n->setNextHandler(m), the same body in all four classes.  The outcome
\* of an earlier handle call (the caught exception e and what the driver
\* saw of the call) lives only until the driver's next statement.
setNextHandler(n, m) ==
    /\ pc = "ready"
    /\ next' = [next EXCEPT ![n] = m]
    /\ last' = NoCall
    /\ signal' = "none"
    /\ payload' = <<>>
    /\ trace' = <<>>
    /\ acted' = <<>>
    /\ UNCHANGED <<pc, openable, file, cerr, calls, errs>>

\* One outermost call h->handle(log) by the driver, which catches
\* std::runtime_error, reads what() and goes on.
Handle(h, log) ==
    /\ pc = "ready"
    /\ LET r == handle(next, h, log, World(file, cerr)) IN
         /\ file' = r.file
         /\ cerr' = r.cerr
         /\ signal' = r.signal
         /\ payload' = r.payload
         /\ trace' = r.trace
         /\ acted' = r.acted
         /\ pc' = IF r.signal = "diverge" THEN "diverged" ELSE pc
    /\ calls' = calls + 1
    /\ last' = [head |-> h, log |-> log]
    /\ errs' = IF log.type = "Error" THEN Append(errs, log.message) ELSE errs
    /\ UNCHANGED <<openable, next>>

\* main wires the chain link by link in its fixed order
MainWire ==
    /\ next # MainChain
    /\ LET n == IF next["main_handler"] = NULL THEN "main_handler"
                ELSE IF next["error_h"] = NULL THEN "error_h"
                ELSE "warning_h"
       IN setNextHandler(n, MainChain[n])

\* main calls handle on main_handler once the chain is wired
MainCall ==
    /\ next = MainChain
    /\ calls < MaxCalls
    /\ \E log \in LogMessage : Handle("main_handler", log)

\* any wiring at any time, also between handle calls
AnyWire ==
    \E n \in Nodes, m \in Nodes \cup {NULL} : setNextHandler(n, m)

\* a call on any handler object of any wiring
AnyCall ==
    /\ calls < MaxChainCalls
    /\ \E h \in Nodes, t \in LogMessageType, m \in ChainTexts :
          Handle(h, [type |-> t, message |-> m])

\* the driver of main.cpp with arbitrary messages
Next == Construct \/ MainWire \/ MainCall
Spec == Init /\ [][Next]_vars

\* the handler classes used with arbitrary wiring and entry point
NextChains == Construct \/ AnyWire \/ AnyCall
SpecChains == Init /\ [][NextChains]_vars

\* ------------------------------------------------ vocabulary of the claims
\* this step is one outermost handle call
HandleStep == calls' = calls + 1

\* this step is a handle call on the head of the chain wired as in main
MainStep(type) ==
    /\ HandleStep
    /\ next = MainChain
    /\ last'.head = "main_handler"
    /\ last'.log.type = type

\* the message type a handler object reacts to
Handles(n) ==
    CASE Class(n) = "FatalErrorHandler"     -> "FatalError"
      [] Class(n) = "ErrorHandler"          -> "Error"
      [] Class(n) = "WarningHandler"        -> "Warning"
      [] Class(n) = "UnknownMessageHandler" -> "UnknownMessage"

\* the objects reached from n by following successor pointers, in order,
\* up to the end of the chain or to the first object seen before
RECURSIVE Walk(_, _, _)
Walk(nxt, n, seen) ==
    IF n = NULL \/ (\E i \in 1..Len(seen) : seen[i] = n)
    THEN seen
    ELSE Walk(nxt, nxt[n], Append(seen, n))

\* the chain starting at n ends in a null successor
AcyclicFrom(nxt, n) ==
    LET path == Walk(nxt, n, <<>>) IN nxt[path[Len(path)]] = NULL

\* position in the path of the first object that reacts to type, 0 if none
FirstMatch(path, type) ==
    LET hits == {i \in 1..Len(path) : Handles(path[i]) = type} IN
    IF hits = {} THEN 0
    ELSE CHOOSE i \in hits : \A j \in hits : i <= j

\* the wiring is one simple chain through all four objects
IsFullChain(nxt) ==
    \E h \in Nodes : AcyclicFrom(nxt, h) /\ Len(Walk(nxt, h, <<>>)) = 4

HeadOf(nxt) ==
    CHOOSE h \in Nodes : AcyclicFrom(nxt, h) /\ Len(Walk(nxt, h, <<>>)) = 4

\* what one call can add to std::cerr
Emissions == {<<>>} \cup {t \o <<LF>> : t \in Texts}

\* ------------------------------------------------------------------ claims

\* C1: on the chain Fatal -> Error -> Warning -> Unknown a FatalError message
\* always ends in an exception whose text is exactly the message text,
\* unmodified, for every message text; the call does not return normally and
\* touches neither the file nor std::cerr.
C1_FatalRaisesText ==
    [][MainStep("FatalError") =>
          /\ signal' = "runtime_error"
          /\ payload' = last'.log.message
          /\ file' = file
          /\ cerr' = cerr]_vars

\* C2: on the same chain an UnknownMessage message always ends in an
\* exception whose text is "Unprocessed message: " followed by the message
\* text, for every message text; the Fatal, Error and Warning handlers are
\* passed without acting.
C2_UnknownRaisesPrefixed ==
    [][MainStep("UnknownMessage") =>
          /\ signal' = "runtime_error"
          /\ payload' = UnprocessedPrefix \o last'.log.message
          /\ trace' = <<"main_handler", "error_h", "warning_h", "unknown_h">>
          /\ acted' = <<"unknown_h">>
          /\ file' = file
          /\ cerr' = cerr]_vars

\* C3 as stated: Warning and Error messages return normally and perform
\* exactly one side effect: Warning appends text and newline to std::cerr,
\* Error makes the file hold text and newline.
C3_Original ==
    [][/\ (MainStep("Warning") =>
              /\ signal' = "none"
              /\ cerr' = cerr \o last'.log.message \o <<LF>>
              /\ file' = file)
       /\ (MainStep("Error") =>
              /\ signal' = "none"
              /\ file' = last'.log.message \o <<LF>>
              /\ cerr' = cerr)]_vars

\* C3 (amended): Warning and Error messages return normally; Warning appends
\* text and newline to std::cerr and nothing else; Error makes the file hold
\* text and newline when the file can be opened for writing and changes
\* nothing when it cannot; Error never writes to std::cerr.
C3_WarningErrorEffects ==
    [][/\ (MainStep("Warning") =>
              /\ signal' = "none"
              /\ cerr' = cerr \o last'.log.message \o <<LF>>
              /\ file' = file)
       /\ (MainStep("Error") =>
              /\ signal' = "none"
              /\ file' = IF openable THEN last'.log.message \o <<LF>>
                         ELSE file
              /\ cerr' = cerr)]_vars

C3_Witness ==
    /\ calls = 2
    /\ next = MainChain
    /\ openable
    /\ last.log = [type |-> "Error", message |-> <<"a", NUL, "b">>]
    /\ cerr = <<"a", NUL, "b", LF>>
    /\ file = <<"a", NUL, "b", LF>>
    /\ signal = "none"

\* C4: with an openable file, once an Error message has been handled the
\* file holds exactly text and newline of the most recent Error message:
\* every Error message overwrites, none appends.
C4_FileHoldsLastError ==
    (openable /\ errs # <<>>) => file = errs[Len(errs)] \o <<LF>>

C4_Witness ==
    /\ openable
    /\ Len(errs) >= 2
    /\ errs[Len(errs) - 1] = <<"a">>
    /\ errs[Len(errs)] = <<>>
    /\ file = <<LF>>

\* C5: constructing the ErrorHandler on an openable path empties the file,
\* and the file stays empty as long as no Error message has been handled.
C5_EmptyUntilFirstError ==
    (pc = "ready" /\ openable /\ errs = <<>>) => file = <<>>

C5_Witness ==
    /\ pc = "ready"
    /\ openable
    /\ calls = MaxCalls
    /\ errs = <<>>
    /\ cerr # <<>>
    /\ signal = "runtime_error"
    /\ file = <<>>

\* C6: on an acyclic chain, handle runs the handler bodies in chain order
\* from the object it was called on, each at most once, up to and including
\* the first object that reacts to the message type; that object acts once
\* and no other object acts, whether or not the action throws.  Without
\* such an object every body on the chain runs and none acts.
C6_FirstMatchStops ==
    [][(HandleStep /\ AcyclicFrom(next, last'.head)) =>
          LET path == Walk(next, last'.head, <<>>)
              k    == FirstMatch(path, last'.log.type)
          IN /\ pc' = "ready"
             /\ trace' = IF k = 0 THEN path ELSE SubSeq(path, 1, k)
             /\ acted' = IF k = 0 THEN <<>> ELSE <<path[k]>>]_vars

C6_Witness ==
    /\ last # NoCall
    /\ AcyclicFrom(next, last.head)
    /\ Len(Walk(next, last.head, <<>>)) = 4
    /\ trace = SubSeq(Walk(next, last.head, <<>>), 1, 2)
    /\ acted = <<trace[2]>>
    /\ signal = "runtime_error"

\* C7: a call on an acyclic chain of any length that holds no handler for
\* the message type returns normally and changes neither the file nor
\* std::cerr.
C7_Drop ==
    [][(/\ HandleStep
        /\ AcyclicFrom(next, last'.head)
        /\ FirstMatch(Walk(next, last'.head, <<>>), last'.log.type) = 0) =>
          /\ signal' = "none"
          /\ pc' = "ready"
          /\ file' = file
          /\ cerr' = cerr]_vars

C7_Witness ==
    /\ last # NoCall
    /\ next[last.head] = NULL
    /\ Handles(last.head) # last.log.type
    /\ trace = <<last.head>>
    /\ acted = <<>>
    /\ signal = "none"

\* C8: whatever the order in which the four handlers are wired into one
\* chain, a call on the head of the chain ends like the same call on the
\* chain Fatal -> Error -> Warning -> Unknown: same exception and text, same
\* file content, same std::cerr content.
C8_OrderIndependent ==
    [][(HandleStep /\ IsFullChain(next) /\ last'.head = HeadOf(next)) =>
          LET r == handle(MainChain, "main_handler", last'.log,
                          World(file, cerr))
          IN /\ signal' = r.signal
             /\ payload' = r.payload
             /\ file' = r.file
             /\ cerr' = r.cerr]_vars

C8_Witness ==
    /\ last # NoCall
    /\ IsFullChain(next)
    /\ HeadOf(next) = "warning_h"
    /\ next["warning_h"] = "unknown_h"
    /\ last.head = "warning_h"
    /\ last.log.type = "Error"
    /\ trace = Walk(next, "warning_h", <<>>)
    /\ acted = <<"error_h">>

\* C9: when the log file cannot be opened, an Error message is consumed by
\* the Error handler without any effect and without an exception, and it is
\* not forwarded; constructing the ErrorHandler on such a path raises
\* nothing and leaves the file alone.
C9_OpenFailureIsSilent ==
    [][/\ ((~openable /\ MainStep("Error")) =>
              /\ signal' = "none"
              /\ file' = file
              /\ cerr' = cerr
              /\ trace' = <<"main_handler", "error_h">>
              /\ acted' = <<"error_h">>)
       /\ ((~openable /\ pc = "new" /\ pc' # "new") =>
              /\ pc' = "ready"
              /\ signal' = "none"
              /\ file' = file)]_vars

C9_Witness ==
    /\ ~openable
    /\ last # NoCall
    /\ last.log.type = "Error"
    /\ file = <<"o", "l", "d", LF>>
    /\ trace = <<"main_handler", "error_h">>
    /\ signal = "none"

\* C10: a handle call leaves every successor pointer as it was, and how it
\* ends (exception and text, text added to std::cerr, text put into the
\* file) is the same as for the same message on the same wiring with any
\* other file content and std::cerr content left behind by earlier calls.
C10_Stateless ==
    [][HandleStep =>
          /\ next' = next
          /\ \A f0 \in PriorContents \cup {<<>>}, c0 \in Emissions :
                LET r == handle(next, last'.head, last'.log, World(f0, c0))
                IN /\ signal' = r.signal
                   /\ payload' = r.payload
                   /\ \E e \in Emissions :
                         cerr' = cerr \o e /\ r.cerr = c0 \o e
                   /\ \/ file' = r.file
                      \/ file' = file /\ r.file = f0]_vars

C10_Witness ==
    /\ calls = 3
    /\ openable
    /\ next = MainChain
    /\ Len(errs) = 2
    /\ errs[1] # errs[2]
    /\ cerr = <<>>
    /\ last.log.type = "Error"
    /\ file = last.log.message \o <<LF>>
====
